---- MODULE Spec2Model ----
(***************************************************************************)
(* The limit-monitoring and scheduling core of the Marzban bot:            *)
(* MonitoringScheduler (src/src/scheduler.py) on a single cooperative      *)
(* event loop.  Every `await` of the source is one step of the task that   *)
(* executes it; the code between two awaits runs atomically.               *)
(*                                                                         *)
(* Ratios are Python floats in the source.  They are modelled as exact     *)
(* fractions <<numerator, denominator>> and compared by cross              *)
(* multiplication, which agrees with the float comparisons of the source   *)
(* for every magnitude below 2^53.                                         *)
(***************************************************************************)
EXTENDS Integers, Sequences, FiniteSets, TLC

\* ------------------------------------------------------------------ bounds
MaxFaults == 1          \* collaborator calls that raise in one behaviour
MaxCeiling == 10        \* largest quota ceiling given to the Limit Evaluator
MaxInterval == 24       \* largest integer BACKUP_INTERVAL is read as

\* the rows of the admin table, in the store's enumeration order
AdminSeq == <<1, 2>>
AdminIds == {AdminSeq[k] : k \in 1..Len(AdminSeq)}

\* ------------------------------------------------- configuration (config.py)
MaxInstancesMutant == 1 + 1
max_instances == 1      \* add_job(..., max_instances=1)

DecimalDigit(d) ==
    CASE d = 0 -> "0" [] d = 1 -> "1" [] d = 2 -> "2" [] d = 3 -> "3"
      [] d = 4 -> "4" [] d = 5 -> "5" [] d = 6 -> "6" [] d = 7 -> "7"
      [] d = 8 -> "8" [] d = 9 -> "9"

RECURSIVE Str(_)
\* str(n) of an int
Str(n) ==
    IF n < 0 THEN "-" \o Str(0 - n)
    ELSE IF n < 10 THEN DecimalDigit(n)
    ELSE Str(n \div 10) \o DecimalDigit(n % 10)

\* values the environment may give to BACKUP_INTERVAL
RawIntervals == {"daily", "weekly", "monthly", "hourly", "", "6"}

\* int(raw_backup_interval) succeeds on the decimal text of an integer
IsIntText(raw) == \E n \in 0..MaxInterval : Str(n) = raw
IntOfText(raw) == CHOOSE n \in 0..MaxInterval : Str(n) = raw

\* BACKUP_INTERVAL: the integer when the text converts, else the text
BackupInterval(raw) ==
    IF IsIntText(raw) THEN [type |-> "int", n |-> IntOfText(raw), s |-> ""]
    ELSE [type |-> "str", n |-> 0, s |-> raw]

\* a crontab expression is the sequence of its fields
EveryDayAtMidnight == <<"0", "0", "*", "*", "*">>
CronTable == [daily |-> EveryDayAtMidnight,
              weekly |-> <<"0", "0", "*", "*", "0">>,
              monthly |-> <<"0", "0", "1", "*", "*">>]

\* the dictionary indexed without a default: no expression for a missing key
CronExpressionNoDefault(interval) ==
    IF interval.type = "str" /\ interval.s \in DOMAIN CronTable
    THEN CronTable[interval.s] ELSE <<>>

\* {...}.get(config.BACKUP_INTERVAL, "0 0 * * *")
CronExpression(interval) ==
    IF interval.type = "str" /\ interval.s \in DOMAIN CronTable
    THEN CronTable[interval.s] ELSE EveryDayAtMidnight

NoTrigger == [minute |-> "", hour |-> "", day |-> "", month |-> "", day_of_week |-> ""]

\* CronTrigger.from_crontab(expr): ValueError unless expr has five fields
FromCrontabRaises(expr) == Len(expr) # 5

FromCrontab(expr) ==
    [minute |-> expr[1], hour |-> expr[2], day |-> expr[3], month |-> expr[4],
     day_of_week |-> expr[5]]

\* --------------------------------------------------------------- the store
\* An optional string (marzban_username, username) is <<>> for None and
\* <<s>> for the string s.
NoAdmin == [id |-> 0, user_id |-> 0, is_active |-> FALSE,
            marzban_username |-> <<>>, username |-> <<>>,
            max_users |-> 0, max_total_time |-> 0, max_total_traffic |-> 0]

UserIdOf(id) == 100 + id

AdminRow(id, active) ==
    [id |-> id, user_id |-> UserIdOf(id), is_active |-> active,
     marzban_username |-> <<>>, username |-> <<>>,
     max_users |-> 10, max_total_time |-> 0, max_total_traffic |-> 10]

\* ------------------------------------------------------- Panel Client key
\* truth value of an optional string: None and "" are false
Truthy(x) == x # <<>> /\ x[1] # ""

\* x or y
PyOr(x, y) == IF Truthy(x) THEN x ELSE y

AdminUsernameLocalFirst(admin) ==
    PyOr(PyOr(admin.username, admin.marzban_username), <<Str(admin.user_id)>>)[1]

\* check: admin.marzban_username or admin.username or str(admin.user_id)
AdminUsername(admin) ==
    PyOr(PyOr(admin.marzban_username, admin.username), <<Str(admin.user_id)>>)[1]

\* reaper: admin.marzban_username or admin.username or str(admin.user_id)
ReaperAdminUsername(admin) ==
    PyOr(PyOr(admin.marzban_username, admin.username), <<Str(admin.user_id)>>)[1]

\* live statistics the Panel Client may report for one admin
StatsChoices ==
    { [total_users |-> 5,  total_traffic_used |-> 0],
      [total_users |-> 7,  total_traffic_used |-> 0],
      [total_users |-> 10, total_traffic_used |-> 0],
      [total_users |-> 7,  total_traffic_used |-> 10] }

\* seconds since created_at read from the clock by one check
ElapsedChoices == {7}

\* -------------------------------------------------------- Limit Evaluator
Zero == <<0, 1>>

\* current / max if max > 0 else 0
Percentage(current, max) == IF max > 0 THEN <<current, max>> ELSE Zero

AtLeastOne(p) == p[1] >= p[2]
BelowOne(p) == p[1] < p[2]
\* level <= p, the level given in tenths
LevelReached(level, p) == level * p[2] <= 10 * p[1]

warning_levels == {6, 7, 8, 9}

LimitsExceededStrict(tp, up, fp) ==
    \/ tp[1] > tp[2]
    \/ up[1] > up[2]
    \/ fp[1] > fp[2]

\* limits_exceeded: any percentage >= 1.0
LimitsExceeded(tp, up, fp) ==
    AtLeastOne(tp) \/ AtLeastOne(up) \/ AtLeastOne(fp)

WarningFromEight(tp, up, fp) ==
    \E p \in {tp, up, fp} : LevelReached(8, p) /\ BelowOne(p)

\* warning_needed: any(level <= percentage < 1.0 for level in warning_levels)
WarningNeeded(tp, up, fp) ==
    \/ \E level \in warning_levels : LevelReached(level, tp) /\ BelowOne(tp)
    \/ \E level \in warning_levels : LevelReached(level, up) /\ BelowOne(up)
    \/ \E level \in warning_levels : LevelReached(level, fp) /\ BelowOne(fp)

NoLimits == [user_percentage |-> Zero, traffic_percentage |-> Zero,
             time_percentage |-> Zero, current_users |-> 0, max_users |-> 0,
             current_traffic |-> 0, max_traffic |-> 0,
             current_time |-> 0, max_time |-> 0]

\* LimitCheckResult(admin_user_id=...): every other field at its default
NeutralResult(user_id) ==
    [admin_user_id |-> user_id, admin_id |-> 0, exceeded |-> FALSE,
     warning |-> FALSE, limits_data |-> NoLimits]

\* the result check_admin_limits_by_id computes from the row, the live
\* statistics and the elapsed seconds
Evaluate(admin, stats, elapsed) ==
    LET tp == Percentage(elapsed, admin.max_total_time)
        up == Percentage(stats.total_users, admin.max_users)
        fp == Percentage(stats.total_traffic_used, admin.max_total_traffic)
    IN  [admin_user_id |-> admin.user_id,
         admin_id |-> admin.id,
         exceeded |-> LimitsExceeded(tp, up, fp),
         warning |-> WarningNeeded(tp, up, fp),
         limits_data |->
            [user_percentage |-> up, traffic_percentage |-> fp,
             time_percentage |-> tp,
             current_users |-> stats.total_users,
             max_users |-> admin.max_users,
             current_traffic |-> 0,
             max_traffic |-> admin.max_total_traffic,
             current_time |-> elapsed,
             max_time |-> admin.max_total_time]]

\* ------------------------------------------------------------------- state
VARIABLES
    boot,         \* bot.py: where main() is, and what its startup steps met
    cfg,          \* config: AUTO_DELETE_EXPIRED_USERS, TELEGRAM_ADMIN_CHAT_ID,
                  \* BACKUP_INTERVAL
    admins,       \* the store's admin table: id -> row, NoAdmin when deleted
    is_running,   \* MonitoringScheduler.is_running
    timer,        \* state of the timer infrastructure (self.scheduler)
    jobs,         \* registrations per job identity
    trigger,      \* the trigger the auto_backup job is registered with
    start_pc,     \* where the caller of start() is
    mon,          \* executions of monitor_all_admins: task -> locals
    hist,         \* what each execution of monitor_all_admins has done so far
    bk,           \* executions of run_auto_backup: task -> locals and effects
    budget,       \* collaborator calls that may still raise
    obs,          \* one observed admin: latest classification, what its latest
                  \* evaluation flagged, Panel Client keys
    ev,           \* one application of the Limit Evaluator
    chat          \* the backup callbacks: SUDO_ADMINS, Backup Service calls made

vars == <<boot, cfg, admins, is_running, timer, jobs, trigger, start_pc, mon, hist,
          bk, budget, obs, ev, chat>>

JobIds == {"admin_monitor", "auto_backup"}

\* the prime run of start() and the instances the timer may run side by side
MonSlots == <<"t1", "t2">>
BkSlots == <<"b1", "b2">>
MonTasks == {"prime", "t1", "t2"}
BkTasks == {"prime", "b1", "b2"}

NoRes == NeutralResult(0)

IdleMon == [pc |-> "idle", snap |-> <<>>, i |-> 0, adm |-> NoAdmin,
            res |-> NoRes, users |-> <<>>, uj |-> 0, cleaned |-> 0]

NoHist == [visited |-> {}, found |-> [a \in AdminIds |-> "none"],
           reports |-> [a \in AdminIds |-> 0],
           stats_calls |-> [a \in AdminIds |-> 0],
           users_calls |-> [a \in AdminIds |-> 0],
           notifs |-> [a \in AdminIds |-> <<>>],
           fail |-> [a \in AdminIds |-> "none"],
           removed |-> {}, cleanup_logs |-> <<>>,
           r_pending |-> {}, r_owed |-> [a \in AdminIds |-> 0],
           r_log_raised |-> FALSE,
           check_raised |-> FALSE]

IdleBk == [pc |-> "idle", success |-> FALSE, logs |-> 0, sent |-> 0,
           printed |-> 0, err |-> "none"]

\* main() has come to start_polling with everything in order
BootDone == [pc |-> "start_polling", token |-> "set", sudo |-> TRUE,
             db |-> "ok", panel |-> "ok", ended |-> "none"]

NoChat == [sudo_admins |-> {}, ops |-> {}, denied |-> {}]

EvIdle == [admin |-> NoAdmin, stats |-> [total_users |-> 0, total_traffic_used |-> 0],
           elapsed |-> 0, result |-> NoRes, done |-> FALSE]

\* ----------------------------------------------------- collaborator faults
CanFail == budget > 0

\* ------------------------------------------------------------ store reads
\* get_all_admins(): the rows that exist, inactive ones included, by id
AllAdmins ==
    SelectSeq([k \in 1..Len(AdminSeq) |-> admins[AdminSeq[k]]], LAMBDA r : r # NoAdmin)

\* ------------------------------------------------------- decisions of code
SkipOnlyMissing(admin) == admin = NoAdmin

\* if not admin or not admin.is_active
SkipCheck(admin) == admin = NoAdmin \/ ~admin.is_active

AppendOnlyWhenFlagged(res) == res.exceeded \/ res.warning

\* the report is appended whatever the classification
AppendsReport(res) == TRUE

DispatchWarningFirst(res) ==
    IF res.warning THEN "warning" ELSE IF res.exceeded THEN "exceeded" ELSE "none"

DispatchExceededOnly(res) == IF res.exceeded THEN "exceeded" ELSE "none"

\* if result.exceeded: ... elif result.warning: ...
Dispatch(res) ==
    IF res.exceeded THEN "exceeded" ELSE IF res.warning THEN "warning" ELSE "none"

AbortAfterError(i, n) == n + 1

\* except Exception: ... continue
ContinueAfterError(i, n) == i + 1

ReaperSkipsNone(admin) == FALSE

\* if not admin.is_active: continue
ReaperSkips(admin) == ~admin.is_active

\* bot.send_message(admin.user_id, ...)
Recipient(admin) == admin.user_id

MonAdvanceSkips(m, i2) ==
    IF i2 + 1 > Len(m.snap)
    THEN [m EXCEPT !.pc = "done", !.i = i2 + 1, !.adm = NoAdmin, !.res = NoRes]
    ELSE [m EXCEPT !.pc = "lookup", !.i = i2 + 1, !.adm = NoAdmin, !.res = NoRes]

\* the monitor loop moves to index i2 of its enumeration
MonAdvance(m, i2) ==
    IF i2 > Len(m.snap)
    THEN [m EXCEPT !.pc = "done", !.i = i2, !.adm = NoAdmin, !.res = NoRes]
    ELSE [m EXCEPT !.pc = "lookup", !.i = i2, !.adm = NoAdmin, !.res = NoRes]

\* the reaper moves to the first admin it does not skip from index i2 on
ReaperAdvance(m, i2) ==
    LET cand == {j \in i2..Len(m.snap) : ~ReaperSkips(m.snap[j])}
    IN  IF cand # {}
        THEN [m EXCEPT !.pc = "r_getusers",
                       !.i = CHOOSE j \in cand : \A k \in cand : j <= k,
                       !.users = <<>>, !.uj = 0]
        ELSE IF m.cleaned > 0
        THEN [m EXCEPT !.pc = "r_log", !.i = Len(m.snap) + 1,
                       !.users = <<>>, !.uj = 0]
        ELSE [m EXCEPT !.pc = "m_list", !.i = 0, !.snap = <<>>,
                       !.users = <<>>, !.uj = 0]

MonBeginAlwaysReaps == [IdleMon EXCEPT !.pc = "r_list"]

MonBeginNeverReaps == [IdleMon EXCEPT !.pc = "m_list"]

\* monitor_all_admins up to its first await
MonBegin ==
    IF cfg.auto_delete THEN [IdleMon EXCEPT !.pc = "r_list"]
                       ELSE [IdleMon EXCEPT !.pc = "m_list"]

Cur(t) == mon[t].snap[mon[t].i].id

\* what the store holds for a row
Found(row) ==
    IF row = NoAdmin THEN "missing" ELSE IF row.is_active THEN "active" ELSE "inactive"

CheckFailedRetries(m) == [m EXCEPT !.pc = "stats"]

CheckFailedSkipsDelay(m) == MonAdvance(m, m.i + 1)

SendFailedRetries(m) == m

\* except Exception of handle_limit_warning / handle_limit_exceeded: the
\* handler returns and the loop goes on to its pacing delay
SendFailed(m) == [m EXCEPT !.pc = "sleep"]

CheckFailedDispatches(m) ==
    [m EXCEPT !.pc = IF Dispatch(m.res) = "none" THEN "sleep" ELSE "h_lookup"]

CheckFailureEndsCycle(m) ==
    [m EXCEPT !.pc = "done", !.i = Len(m.snap) + 1, !.adm = NoAdmin, !.res = NoRes]

\* except Exception of check_admin_limits_by_id with `admin` bound: the
\* neutral result is returned to the loop, which goes on to its pacing delay
CheckFailed(m) ==
    [m EXCEPT !.pc = "sleep", !.res = NeutralResult(m.adm.user_id)]

\* ok / warning / exceeded, exceeded first
Classify(res) ==
    IF res.exceeded THEN "exceeded" ELSE IF res.warning THEN "warning" ELSE "ok"

NoObs == [watch |-> 0, cls |-> "none", flagged |-> "none",
          stats_key |-> <<>>, users_key |-> <<>>]

FrameMon == UNCHANGED <<boot, cfg, admins, is_running, timer, jobs, trigger, start_pc, bk, ev, chat>>

\* lists get_users may return, each user given by its is_expired flag; the
\* user at position j of a list has the username "uj"
UserLists == {<<>>, <<TRUE>>, <<FALSE, TRUE>>}

\* ------------------------------------------------- cleanup_expired_users
\* admins = await db.get_all_admins()
ReaperList(t) ==
    /\ mon[t].pc = "r_list"
    /\ \/ /\ mon' = [mon EXCEPT ![t] = ReaperAdvance([@ EXCEPT !.snap = AllAdmins], 1)]
          /\ hist' = [hist EXCEPT ![t].r_pending =
                    {AllAdmins[k].id : k \in {j \in 1..Len(AllAdmins) : AllAdmins[j].is_active}}]
          /\ UNCHANGED budget
       \/ /\ CanFail
          /\ budget' = budget - 1
          /\ mon' = [mon EXCEPT ![t].pc = "m_list"]
          /\ UNCHANGED hist
    /\ UNCHANGED obs
    /\ FrameMon

ReaperAdminFailureEndsReaper(m) ==
    [m EXCEPT !.pc = "m_list", !.i = 0, !.snap = <<>>, !.users = <<>>, !.uj = 0]

\* except Exception of one admin's batch: ... continue
ReaperAdminFailed(m) == ReaperAdvance(m, m.i + 1)

\* users = await marzban_api.get_users(admin_username)
ReaperGetUsers(t) ==
    /\ mon[t].pc = "r_getusers"
    /\ \/ /\ \E us \in UserLists :
                /\ mon' = [mon EXCEPT ![t] =
                        IF us = <<>> THEN [@ EXCEPT !.pc = "r_sleep_admin"]
                        ELSE [@ EXCEPT !.pc = "r_remove", !.users = us, !.uj = 1]]
                /\ hist' = [hist EXCEPT ![t].users_calls[Cur(t)] = @ + 1,
                                        ![t].r_pending = @ \ {Cur(t)},
                                        ![t].r_owed[Cur(t)] = Len(us)]
          /\ UNCHANGED budget
       \/ /\ CanFail
          /\ budget' = budget - 1
          /\ mon' = [mon EXCEPT ![t] = ReaperAdminFailed(@)]
          /\ hist' = [hist EXCEPT ![t].users_calls[Cur(t)] = @ + 1,
                                  ![t].r_pending = @ \ {Cur(t)},
                                  ![t].fail[Cur(t)] = "get_users"]
    /\ obs' = IF Cur(t) # obs.watch THEN obs
              ELSE [obs EXCEPT !.users_key =
                        <<ReaperAdminUsername(mon[t].snap[mon[t].i])>>]
    /\ FrameMon

\* the inner loop moves past user uj
ReaperNextUser(m) ==
    IF m.uj < Len(m.users) THEN [m EXCEPT !.pc = "r_remove", !.uj = @ + 1]
    ELSE [m EXCEPT !.pc = "r_sleep_admin"]

CountedAlways(success, n) == n + 1

\* if success: total_cleaned += 1
Counted(success, n) == IF success THEN n + 1 ELSE n

ReaperUserFailureEndsBatch(m) == [m EXCEPT !.pc = "r_sleep_admin"]

\* except Exception of one removal: ... continue
ReaperUserFailed(m) == ReaperNextUser(m)

\* success = await marzban_api.remove_user(user.username)
ReaperRemove(t) ==
    /\ mon[t].pc = "r_remove"
    /\ \/ /\ \E success \in BOOLEAN :
                /\ mon' = [mon EXCEPT ![t] =
                        [@ EXCEPT !.pc = "r_sleep_user",
                                  !.cleaned = Counted(success, @)]]
                /\ hist' = [hist EXCEPT ![t].removed = @ \cup
                        {[admin |-> Cur(t), user |-> mon[t].uj,
                          is_expired |-> mon[t].users[mon[t].uj], success |-> success]},
                                        ![t].r_owed[Cur(t)] = @ - 1]
          /\ UNCHANGED budget
       \/ /\ CanFail
          /\ budget' = budget - 1
          /\ mon' = [mon EXCEPT ![t] = ReaperUserFailed(@)]
          /\ hist' = [hist EXCEPT ![t].r_owed[Cur(t)] = @ - 1,
                                  ![t].fail[Cur(t)] = "remove_user"]
    /\ UNCHANGED obs
    /\ FrameMon

\* await asyncio.sleep(0.1)
ReaperSleepUser(t) ==
    /\ mon[t].pc = "r_sleep_user"
    /\ mon' = [mon EXCEPT ![t] = ReaperNextUser(@)]
    /\ UNCHANGED <<hist, budget>>
    /\ UNCHANGED obs
    /\ FrameMon

\* await asyncio.sleep(0.5)
ReaperSleepAdmin(t) ==
    /\ mon[t].pc = "r_sleep_admin"
    /\ mon' = [mon EXCEPT ![t] = ReaperAdvance(@, @.i + 1)]
    /\ UNCHANGED <<hist, budget>>
    /\ UNCHANGED obs
    /\ FrameMon

\* await db.add_log(log) when total_cleaned > 0
ReaperLog(t) ==
    /\ mon[t].pc = "r_log"
    /\ \/ /\ hist' = [hist EXCEPT ![t].cleanup_logs = Append(@, mon[t].cleaned)]
          /\ UNCHANGED budget
       \/ /\ CanFail
          /\ budget' = budget - 1
          /\ hist' = [hist EXCEPT ![t].r_log_raised = TRUE]
    /\ mon' = [mon EXCEPT ![t].pc = "m_list"]
    /\ UNCHANGED obs
    /\ FrameMon

\* ----------------------------------------------------- monitor_all_admins
\* what the monitoring pass holds after its enumeration returned rows: the
\* early return without an active admin, otherwise the first check
MonEntry(rows) ==
    IF \A k \in 1..Len(rows) : ~rows[k].is_active
    THEN [IdleMon EXCEPT !.snap = rows, !.pc = "done"]
    ELSE MonAdvance([IdleMon EXCEPT !.snap = rows], 1)

\* admins = await db.get_all_admins(); the early return without active admins
MonList(t) ==
    /\ mon[t].pc = "m_list"
    /\ \/ /\ mon' = [mon EXCEPT ![t] = MonEntry(AllAdmins)]
          /\ UNCHANGED budget
       \/ /\ CanFail
          /\ budget' = budget - 1
          /\ mon' = [mon EXCEPT ![t] = [IdleMon EXCEPT !.pc = "done"]]
    /\ hist' = [hist EXCEPT ![t] = NoHist]
    /\ UNCHANGED obs
    /\ FrameMon

LookupRowFromEnumeration(t) == mon[t].snap[mon[t].i]

\* db.get_admin_by_id(admin_id): the row the store holds now
LookupRow(t) == admins[Cur(t)]

\* check_admin_limits_by_id: admin = await db.get_admin_by_id(admin_id).
\* When the lookup raises, `admin` is unbound in the except clause, which
\* raises in turn; the loop of monitor_all_admins catches that.
CheckLookup(t) ==
    /\ mon[t].pc = "lookup"
    /\ LET a == Cur(t)
           row == LookupRow(t)
       IN  \/ /\ mon' = [mon EXCEPT ![t] =
                    IF SkipCheck(row)
                    THEN [@ EXCEPT !.pc = "sleep", !.adm = row,
                            !.res = NeutralResult(IF row # NoAdmin THEN row.user_id ELSE 0)]
                    ELSE [@ EXCEPT !.pc = "stats", !.adm = row]]
              /\ hist' = [hist EXCEPT ![t].visited = @ \cup {a},
                                      ![t].found[a] = Found(row)]
              /\ UNCHANGED <<budget, obs>>
           \/ /\ CanFail
              /\ budget' = budget - 1
              /\ mon' = [mon EXCEPT ![t] =
                    MonAdvance(@, ContinueAfterError(@.i, Len(@.snap)))]
              /\ hist' = [hist EXCEPT ![t].visited = @ \cup {a},
                                      ![t].fail[a] = "lookup",
                                      ![t].check_raised = TRUE]
              /\ obs' = IF a = obs.watch THEN [obs EXCEPT !.cls = "failed"] ELSE obs
    /\ FrameMon

\* admin_stats = await marzban_api.get_admin_stats(admin_username), then the
\* evaluation up to the await of add_usage_report
CheckStats(t) ==
    /\ mon[t].pc = "stats"
    /\ LET a == Cur(t)
       IN  \/ /\ \E st \in StatsChoices, el \in ElapsedChoices :
                    mon' = [mon EXCEPT ![t] =
                        LET r == Evaluate(@.adm, st, el)
                        IN  IF AppendsReport(r)
                            THEN [@ EXCEPT !.pc = "report", !.res = r]
                            ELSE IF Dispatch(r) = "none"
                            THEN [@ EXCEPT !.pc = "sleep", !.res = r]
                            ELSE [@ EXCEPT !.pc = "h_lookup", !.res = r]]
              /\ hist' = [hist EXCEPT ![t].stats_calls[a] = @ + 1]
              /\ UNCHANGED budget
           \/ /\ CanFail
              /\ budget' = budget - 1
              /\ mon' = [mon EXCEPT ![t] = CheckFailed(@)]
              /\ hist' = [hist EXCEPT ![t].stats_calls[a] = @ + 1,
                                      ![t].fail[a] = "stats"]
    /\ obs' = IF Cur(t) # obs.watch THEN obs
              ELSE [obs EXCEPT !.stats_key = <<AdminUsername(mon[t].adm)>>,
                               !.flagged = Dispatch(mon'[t].res)]
    /\ FrameMon

\* await db.add_usage_report(report), the return of the result and the
\* branch of monitor_all_admins on it
CheckReport(t) ==
    /\ mon[t].pc = "report"
    /\ LET a == Cur(t)
       IN  \/ /\ mon' = [mon EXCEPT ![t].pc =
                    IF Dispatch(mon[t].res) = "none" THEN "sleep" ELSE "h_lookup"]
              /\ hist' = [hist EXCEPT ![t].reports[a] = @ + 1]
              /\ UNCHANGED budget
           \/ /\ CanFail
              /\ budget' = budget - 1
              /\ mon' = [mon EXCEPT ![t] = CheckFailed(@)]
              /\ hist' = [hist EXCEPT ![t].fail[a] = "report"]
    /\ UNCHANGED obs
    /\ FrameMon

\* handle_limit_exceeded / handle_limit_warning:
\* admin = await db.get_admin_by_id(result.admin_id); if not admin: return
HandleLookup(t) ==
    /\ mon[t].pc = "h_lookup"
    /\ LET a == Cur(t)
           row == admins[mon[t].res.admin_id]
       IN  \/ /\ mon' = [mon EXCEPT ![t] =
                    IF row = NoAdmin THEN [@ EXCEPT !.pc = "sleep"]
                    ELSE [@ EXCEPT !.pc = "h_send", !.adm = row]]
              /\ UNCHANGED <<hist, budget>>
           \/ /\ CanFail
              /\ budget' = budget - 1
              /\ mon' = [mon EXCEPT ![t].pc = "sleep"]
              /\ hist' = [hist EXCEPT ![t].fail[a] = "h_lookup"]
    /\ UNCHANGED obs
    /\ FrameMon

\* await self.bot.send_message(admin.user_id, message)
HandleSend(t) ==
    /\ mon[t].pc = "h_send"
    /\ LET a == Cur(t)
       IN  \/ /\ hist' = [hist EXCEPT ![t].notifs[a] =
                    Append(@, [kind |-> Dispatch(mon[t].res),
                               to |-> Recipient(mon[t].adm)])]
              /\ mon' = [mon EXCEPT ![t].pc = "sleep"]
              /\ UNCHANGED budget
           \/ /\ CanFail
              /\ budget' = budget - 1
              /\ hist' = [hist EXCEPT ![t].fail[a] = "send"]
              /\ mon' = [mon EXCEPT ![t] = SendFailed(@)]
    /\ UNCHANGED obs
    /\ FrameMon

\* await asyncio.sleep(1), then the next admin of the enumeration
PaceSleep(t) ==
    /\ mon[t].pc = "sleep"
    /\ mon' = [mon EXCEPT ![t] = MonAdvance(@, @.i + 1)]
    /\ obs' = IF Cur(t) # obs.watch THEN obs
              ELSE [obs EXCEPT !.cls = IF hist[t].reports[Cur(t)] > 0
                                       THEN Classify(mon[t].res)
                                       ELSE IF hist[t].fail[Cur(t)] # "none"
                                       THEN "failed" ELSE "none"]
    /\ UNCHANGED <<hist, budget>>
    /\ FrameMon

\* -------------------------------------------------------- run_auto_backup
FrameBk == UNCHANGED <<boot, cfg, admins, is_running, timer, jobs, trigger, mon, hist, obs, ev, chat>>

BackupFailurePropagates(b, where) == [b EXCEPT !.pc = "raised", !.err = where]

\* except Exception as e: print(f"Error in auto backup: {e}")
BackupFailed(b, where) ==
    [b EXCEPT !.pc = "done", !.printed = @ + 1, !.err = where]

\* what create_backup may do: return (True, filename), return (False, msg),
\* or raise
BackupOutcomes ==
    IF CanFail THEN {"created", "failed", "raised"} ELSE {"created", "failed"}

BkBeginNotifiesFailure(out) ==
    IF out = "created" THEN [IdleBk EXCEPT !.pc = "add_log", !.success = TRUE]
    ELSE IF out = "failed" THEN [IdleBk EXCEPT !.pc = "send", !.printed = 1]
    ELSE BackupFailed(IdleBk, "create")

\* run_auto_backup up to its first await: create_backup is a blocking call;
\* a returned failure prints "Auto backup failed: {message}" and nothing else
BkBegin(out) ==
    IF out = "created" THEN [IdleBk EXCEPT !.pc = "add_log", !.success = TRUE]
    ELSE IF out = "failed" THEN [IdleBk EXCEPT !.pc = "done", !.printed = 1]
    ELSE BackupFailed(IdleBk, "create")

NotifiesAlways == TRUE

\* if config.TELEGRAM_ADMIN_CHAT_ID:
NotifiesOperator == cfg.admin_chat

\* await db.add_log(log)
BackupAddLog(t) ==
    /\ bk[t].pc = "add_log"
    /\ \/ /\ bk' = [bk EXCEPT ![t] =
                [@ EXCEPT !.logs = @ + 1,
                          !.pc = IF NotifiesOperator THEN "send" ELSE "done"]]
          /\ UNCHANGED budget
       \/ /\ CanFail
          /\ budget' = budget - 1
          /\ bk' = [bk EXCEPT ![t] = BackupFailed(@, "add_log")]
    /\ UNCHANGED start_pc
    /\ FrameBk

\* await self.bot.send_message(config.TELEGRAM_ADMIN_CHAT_ID, ...)
BackupSend(t) ==
    /\ bk[t].pc = "send"
    /\ \/ /\ bk' = [bk EXCEPT ![t] = [@ EXCEPT !.sent = @ + 1, !.pc = "done"]]
          /\ UNCHANGED budget
       \/ /\ CanFail
          /\ budget' = budget - 1
          /\ bk' = [bk EXCEPT ![t] = BackupFailed(@, "send")]
    /\ UNCHANGED start_pc
    /\ FrameBk

\* ------------------------------------------------------- Job Orchestrator
AddJobAgain(js, id) == [js EXCEPT ![id] = @ + 1]

\* add_job(..., id=id, replace_existing=True)
AddJob(js, id) == [js EXCEPT ![id] = 1]

\* start() on a stopped orchestrator: both registrations, the start of the
\* timer, the flag, and the prime monitoring cycle up to its first await
\* When from_crontab raises, admin_monitor has been handed to the scheduler,
\* auto_backup has not, and the exception goes to the caller of start().
Start ==
    /\ start_pc = "idle"
    /\ ~is_running
    /\ IF FromCrontabRaises(CronExpression(cfg.backup_interval))
       THEN /\ jobs' = AddJob(jobs, "admin_monitor")
            /\ UNCHANGED <<trigger, timer, is_running, mon, hist, start_pc>>
       ELSE /\ jobs' = AddJob(AddJob(jobs, "admin_monitor"), "auto_backup")
            /\ trigger' = FromCrontab(CronExpression(cfg.backup_interval))
            /\ timer' = "running"
            /\ is_running' = TRUE
            /\ mon' = [mon EXCEPT !["prime"] = MonBegin]
            /\ hist' = [hist EXCEPT !["prime"] = NoHist]
            /\ start_pc' = "monitor"
    /\ UNCHANGED <<boot, cfg, admins, bk, budget, obs, ev, chat>>

\* start() on a stopped orchestrator when self.scheduler.start() raises: both
\* jobs have been handed to the scheduler, the flag stays False, no prime run
\* is made and the exception goes to the caller of start()
StartTimerFails ==
    /\ start_pc = "idle"
    /\ ~is_running
    /\ CanFail
    /\ ~FromCrontabRaises(CronExpression(cfg.backup_interval))
    /\ budget' = budget - 1
    /\ jobs' = AddJob(AddJob(jobs, "admin_monitor"), "auto_backup")
    /\ trigger' = FromCrontab(CronExpression(cfg.backup_interval))
    /\ UNCHANGED <<boot, cfg, admins, is_running, timer, start_pc, mon, hist, bk, obs, ev, chat>>

StartAgainWhileRunning ==
    /\ start_pc = "idle"
    /\ is_running
    /\ jobs' = AddJob(AddJob(jobs, "admin_monitor"), "auto_backup")
    /\ trigger' = FromCrontab(CronExpression(cfg.backup_interval))
    /\ mon' = [mon EXCEPT !["prime"] = MonBegin]
    /\ hist' = [hist EXCEPT !["prime"] = NoHist]
    /\ start_pc' = "monitor"
    /\ UNCHANGED <<boot, cfg, admins, is_running, timer, bk, budget, obs, ev, chat>>

\* start() while running: "Scheduler is already running"
StartWhileRunning ==
    /\ start_pc = "idle"
    /\ is_running
    /\ UNCHANGED vars

PrimeSkipsBackup ==
    /\ start_pc = "monitor"
    /\ mon["prime"].pc = "done"
    /\ mon' = [mon EXCEPT !["prime"] = IdleMon]
    /\ hist' = [hist EXCEPT !["prime"] = NoHist]
    /\ start_pc' = "idle"
    /\ UNCHANGED <<boot, cfg, admins, is_running, timer, jobs, trigger, bk, budget, obs, ev, chat>>

\* start(): monitor_all_admins has returned, run_auto_backup begins
PrimeMonitorReturn ==
    /\ start_pc = "monitor"
    /\ mon["prime"].pc = "done"
    /\ mon' = [mon EXCEPT !["prime"] = IdleMon]
    /\ hist' = [hist EXCEPT !["prime"] = NoHist]
    /\ \E out \in BackupOutcomes :
            /\ bk' = [bk EXCEPT !["prime"] = BkBegin(out)]
            /\ budget' = IF out = "raised" THEN budget - 1 ELSE budget
    /\ start_pc' = "backup"
    /\ UNCHANGED <<boot, cfg, admins, is_running, timer, jobs, trigger, obs, ev, chat>>

\* start(): run_auto_backup has returned, and so does start()
PrimeBackupReturn ==
    /\ start_pc = "backup"
    /\ bk["prime"].pc = "done"
    /\ bk' = [bk EXCEPT !["prime"] = IdleBk]
    /\ start_pc' = "idle"
    /\ UNCHANGED <<boot, cfg, admins, is_running, timer, jobs, trigger, mon, hist, budget, obs, ev, chat>>

StopLeavesTimer ==
    /\ is_running
    /\ is_running' = FALSE
    /\ UNCHANGED <<boot, cfg, admins, timer, jobs, trigger, start_pc, mon, hist, bk, budget, obs, ev, chat>>

\* stop(): shutdown(wait=False) halts the timer and drops the jobs; runs in
\* flight are not waited for
Stop ==
    /\ is_running
    /\ timer' = "stopped"
    /\ jobs' = [j \in JobIds |-> 0]
    /\ trigger' = NoTrigger
    /\ is_running' = FALSE
    /\ UNCHANGED <<boot, cfg, admins, start_pc, mon, hist, bk, budget, obs, ev, chat>>

\* stop() while not running
StopWhileStopped ==
    /\ ~is_running
    /\ UNCHANGED vars

\* str(self.scheduler.get_job(id).next_run_time); get_job returns None for
\* an identity that is not registered and the attribute access raises
NextRunTime(id) == IF jobs[id] > 0 THEN "time" ELSE "raise"

GetStatusLive ==
    [running |-> is_running,
     jobs |-> jobs["admin_monitor"] + jobs["auto_backup"],
     next_monitor_run |-> NextRunTime("admin_monitor"),
     next_backup_run |-> NextRunTime("auto_backup")]

\* get_status()
GetStatus ==
    [running |-> is_running,
     jobs |-> IF is_running THEN jobs["admin_monitor"] + jobs["auto_backup"] ELSE 0,
     next_monitor_run |-> IF is_running THEN NextRunTime("admin_monitor") ELSE "null",
     next_backup_run |-> IF is_running THEN NextRunTime("auto_backup") ELSE "null"]

\* slots of a job that hold a running instance
Busy(slots, pcs) == {k \in 1..Len(slots) : pcs[slots[k]].pc # "idle"}

\* the timer accepts a firing while fewer than max_instances instances run
Accepts(slots, pcs) ==
    /\ Cardinality(Busy(slots, pcs)) < max_instances
    /\ Cardinality(Busy(slots, pcs)) < Len(slots)

FreeSlot(slots, pcs) ==
    slots[CHOOSE k \in 1..Len(slots) :
            /\ k \notin Busy(slots, pcs)
            /\ \A j \in 1..Len(slots) : j \notin Busy(slots, pcs) => k <= j]

\* the interval trigger of admin_monitor fires and the run is started
TimerFireMonitor ==
    /\ timer = "running"
    /\ jobs["admin_monitor"] > 0
    /\ Accepts(MonSlots, mon)
    /\ mon' = [mon EXCEPT ![FreeSlot(MonSlots, mon)] = MonBegin]
    /\ hist' = [hist EXCEPT ![FreeSlot(MonSlots, mon)] = NoHist]
    /\ UNCHANGED <<boot, cfg, admins, is_running, timer, jobs, trigger, start_pc, bk, budget, obs, ev, chat>>

\* the interval trigger fires while max_instances instances run: the firing
\* is skipped and leaves nothing behind
TimerDropMonitor ==
    /\ timer = "running"
    /\ jobs["admin_monitor"] > 0
    /\ ~Accepts(MonSlots, mon)
    /\ UNCHANGED vars

\* the cron trigger of auto_backup fires and the run is started
TimerFireBackup ==
    /\ timer = "running"
    /\ jobs["auto_backup"] > 0
    /\ Accepts(BkSlots, bk)
    /\ \E out \in BackupOutcomes :
            /\ bk' = [bk EXCEPT ![FreeSlot(BkSlots, bk)] = BkBegin(out)]
            /\ budget' = IF out = "raised" THEN budget - 1 ELSE budget
    /\ UNCHANGED <<boot, cfg, admins, is_running, timer, jobs, trigger, start_pc, mon, hist, obs, ev, chat>>

\* the cron trigger fires while max_instances instances run
TimerDropBackup ==
    /\ timer = "running"
    /\ jobs["auto_backup"] > 0
    /\ ~Accepts(BkSlots, bk)
    /\ UNCHANGED vars

\* the timer goes on counting an instance that has returned
TimerMonitorReturnKeepsSlot(t) ==
    /\ t # "prime"
    /\ mon[t].pc = "done"
    /\ UNCHANGED vars

\* a timer-fired monitor_all_admins returns to the timer
TimerMonitorReturn(t) ==
    /\ t # "prime"
    /\ mon[t].pc = "done"
    /\ mon' = [mon EXCEPT ![t] = IdleMon]
    /\ hist' = [hist EXCEPT ![t] = NoHist]
    /\ UNCHANGED <<boot, cfg, admins, is_running, timer, jobs, trigger, start_pc, bk, budget, obs, ev, chat>>

\* a timer-fired run_auto_backup returns to the timer
TimerBackupReturn(t) ==
    /\ t # "prime"
    /\ bk[t].pc = "done"
    /\ bk' = [bk EXCEPT ![t] = IdleBk]
    /\ UNCHANGED <<boot, cfg, admins, is_running, timer, jobs, trigger, start_pc, mon, hist, budget, obs, ev, chat>>

\* ---------------------------------------------------- process (bot.py)
FrameBoot == UNCHANGED <<cfg, admins, is_running, timer, jobs, trigger, start_pc,
                         mon, hist, bk, budget, obs, ev, chat>>

\* main(): BOT_TOKEN unset or left at its placeholder, or no SUDO_ADMINS:
\* an error is logged and main returns; otherwise the bot is constructed
\* and setup() begins
MainChecks ==
    /\ boot.pc = "main"
    /\ boot' = [boot EXCEPT !.pc =
            IF boot.token \in {"empty", "placeholder"} THEN "exited"
            ELSE IF ~boot.sudo THEN "exited"
            ELSE "init_db"]
    /\ FrameBoot

InitDbWarnsOnly ==
    /\ boot.pc = "init_db"
    /\ \E out \in {"ok", "raise"} :
            boot' = [boot EXCEPT !.db = out, !.pc = "test_connection"]
    /\ FrameBoot

\* setup(): await db.init_db(); a failure is logged and raised again, which
\* ends main()
InitDb ==
    /\ boot.pc = "init_db"
    /\ \E out \in {"ok", "raise"} :
            boot' = [boot EXCEPT !.db = out,
                        !.pc = IF out = "ok" THEN "test_connection" ELSE "exited"]
    /\ FrameBoot

\* setup(): await marzban_api.test_connection(); a false result and an
\* exception are logged as warnings; then the routers are registered and
\* the scheduler is constructed
TestConnection ==
    /\ boot.pc = "test_connection"
    /\ \E out \in {"ok", "false", "raise"} :
            boot' = [boot EXCEPT !.panel = out, !.pc = "startup_message"]
    /\ FrameBoot

\* send_startup_message(): failures of single sends are logged
StartupMessage ==
    /\ boot.pc = "startup_message"
    /\ boot' = [boot EXCEPT !.pc = "start_polling"]
    /\ FrameBoot

\* start_polling(): await self.scheduler.start()
BootStart == boot.pc = "start_polling" /\ Start

\* start_polling(): self.scheduler.start() inside start() raises; the except
\* clause raises again and the finally clause awaits cleanup(), whose stop()
\* returns at once because the flag is False
BootStartFails ==
    /\ boot.pc = "start_polling"
    /\ start_pc = "idle"
    /\ ~is_running
    /\ CanFail
    /\ ~FromCrontabRaises(CronExpression(cfg.backup_interval))
    /\ budget' = budget - 1
    /\ jobs' = AddJob(AddJob(jobs, "admin_monitor"), "auto_backup")
    /\ trigger' = FromCrontab(CronExpression(cfg.backup_interval))
    /\ boot' = [boot EXCEPT !.pc = "exited", !.ended = "start_raised"]
    /\ UNCHANGED <<cfg, admins, is_running, timer, start_pc, mon, hist, bk, obs, ev, chat>>

\* start_polling(): the task is cancelled or interrupted while start() awaits
\* inside its prime run; the exception leaves start(), which abandons the
\* prime run, and the finally clause awaits cleanup() and with it stop()
StartInterrupted ==
    /\ boot.pc = "start_polling"
    /\ start_pc \in {"monitor", "backup"}
    /\ is_running
    /\ boot' = [boot EXCEPT !.pc = "exited", !.ended = "start_raised"]
    /\ mon' = [mon EXCEPT !["prime"] = IdleMon]
    /\ hist' = [hist EXCEPT !["prime"] = NoHist]
    /\ bk' = [bk EXCEPT !["prime"] = IdleBk]
    /\ start_pc' = "idle"
    /\ timer' = "stopped"
    /\ jobs' = [j \in JobIds |-> 0]
    /\ trigger' = NoTrigger
    /\ is_running' = FALSE
    /\ UNCHANGED <<cfg, admins, budget, obs, ev, chat>>

CleanupWithoutStop ==
    /\ boot.pc = "start_polling"
    /\ start_pc = "idle"
    /\ is_running
    /\ \E how \in {"returned", "polling_raised"} :
            boot' = [boot EXCEPT !.pc = "exited", !.ended = how]
    /\ UNCHANGED <<cfg, admins, is_running, timer, jobs, trigger, start_pc, mon, hist, bk, budget, obs, ev, chat>>

\* start_polling(): dp.start_polling has returned or raised; the finally
\* clause awaits cleanup(), which awaits scheduler.stop()
Cleanup ==
    /\ boot.pc = "start_polling"
    /\ start_pc = "idle"
    /\ is_running
    /\ \E how \in {"returned", "polling_raised"} :
            boot' = [boot EXCEPT !.pc = "exited", !.ended = how]
    /\ timer' = "stopped"
    /\ jobs' = [j \in JobIds |-> 0]
    /\ trigger' = NoTrigger
    /\ is_running' = FALSE
    /\ UNCHANGED <<cfg, admins, start_pc, mon, hist, bk, budget, obs, ev, chat>>

\* ------------------------------- backup callbacks (backup_handlers.py)
\* chat identities that press buttons, and the backup files on disk
ChatUsers == {1, 2}
BackupFiles == {"b1.sql", "a_b.sql"}

\* callback data the chat interface may deliver
CallbackData ==
    {"backup_create", "backup_restore", "sudo_menu"}
        \cup {"restore_" \o f : f \in BackupFiles}

\* F.data.startswith("restore_")
StartsWithRestore(data) == \E f \in BackupFiles \cup {""} : "restore_" \o f = data

\* callback.data.split("_", 1)[1]
BackupFilename(data) == CHOOSE f \in BackupFiles \cup {""} : "restore_" \o f = data

AuthorizedAnyone(u) == TRUE

\* callback.from_user.id in config.SUDO_ADMINS
Authorized(u) == u \in chat.sudo_admins

FrameChat == UNCHANGED <<boot, cfg, admins, is_running, timer, jobs, trigger, start_pc,
                         mon, hist, bk, budget, obs, ev>>

\* the alert answered to a caller that is not a sudo admin
Denied(u, data) == [chat EXCEPT !.denied = @ \cup {[data |-> data, by |-> u]}]

\* a call of the Backup Service made for caller u
Invoked(u, op, arg) == [chat EXCEPT !.ops = @ \cup {[op |-> op, by |-> u, arg |-> arg]}]

\* callback_query(F.data == "backup_create")
create_backup(u, data) ==
    /\ data = "backup_create"
    /\ chat' = IF ~Authorized(u) THEN Denied(u, data)
               ELSE Invoked(u, "create_backup", "")
    /\ FrameChat

\* callback_query(F.data == "backup_restore")
list_backups(u, data) ==
    /\ data = "backup_restore"
    /\ chat' = IF ~Authorized(u) THEN Denied(u, data)
               ELSE Invoked(u, "list_backups", "")
    /\ FrameChat

\* callback_query(F.data.startswith("restore_"))
restore_backup(u, data) ==
    /\ StartsWithRestore(data)
    /\ chat' = IF ~Authorized(u) THEN Denied(u, data)
               ELSE Invoked(u, "restore_backup", BackupFilename(data))
    /\ FrameChat

\* ------------------------------------------------------------ environment
\* an administrative action deactivates an admin (soft delete)
Deactivate(a) ==
    /\ admins[a] # NoAdmin
    /\ admins[a].is_active
    /\ admins' = [admins EXCEPT ![a].is_active = FALSE]
    /\ UNCHANGED <<boot, cfg, is_running, timer, jobs, trigger, start_pc, mon, hist, bk, budget, obs, ev, chat>>

\* ceilings an administrative action may give to max_users
CeilingChoices == {5, 10}

\* an administrative action changes the max_users ceiling of an admin
ChangeCeiling(a) ==
    /\ admins[a] # NoAdmin
    /\ \E c \in CeilingChoices \ {admins[a].max_users} :
            admins' = [admins EXCEPT ![a].max_users = c]
    /\ UNCHANGED <<boot, cfg, is_running, timer, jobs, trigger, start_pc, mon, hist, bk, budget, obs, ev, chat>>

\* the row of an admin is deleted from the store
Remove(a) ==
    /\ admins[a] # NoAdmin
    /\ admins' = [admins EXCEPT ![a] = NoAdmin]
    /\ UNCHANGED <<boot, cfg, is_running, timer, jobs, trigger, start_pc, mon, hist, bk, budget, obs, ev, chat>>

\* ---------------------------------------------------------- specification
Quiet ==
    /\ is_running = FALSE
    /\ timer = "stopped"
    /\ jobs = [j \in JobIds |-> 0]
    /\ trigger = NoTrigger
    /\ start_pc = "idle"
    /\ mon = [t \in MonTasks |-> IdleMon]
    /\ hist = [t \in MonTasks |-> NoHist]
    /\ bk = [t \in BkTasks |-> IdleBk]

Stores == {[a \in AdminIds |-> AdminRow(a, f[a])] : f \in [AdminIds -> BOOLEAN]}

MonitorSteps ==
    \/ \E t \in MonTasks : ReaperList(t)
    \/ \E t \in MonTasks : ReaperGetUsers(t)
    \/ \E t \in MonTasks : ReaperRemove(t)
    \/ \E t \in MonTasks : ReaperSleepUser(t)
    \/ \E t \in MonTasks : ReaperSleepAdmin(t)
    \/ \E t \in MonTasks : ReaperLog(t)
    \/ \E t \in MonTasks : MonList(t)
    \/ \E t \in MonTasks : CheckLookup(t)
    \/ \E t \in MonTasks : CheckStats(t)
    \/ \E t \in MonTasks : CheckReport(t)
    \/ \E t \in MonTasks : HandleLookup(t)
    \/ \E t \in MonTasks : HandleSend(t)
    \/ \E t \in MonTasks : PaceSleep(t)
    \/ \E t \in MonTasks : TimerMonitorReturn(t)

BackupSteps ==
    \/ \E t \in BkTasks : BackupAddLog(t)
    \/ \E t \in BkTasks : BackupSend(t)

Lifecycle ==
    \/ Start
    \/ StartWhileRunning
    \/ PrimeMonitorReturn
    \/ PrimeBackupReturn
    \/ Stop
    \/ StopWhileStopped

StoreChanges ==
    \/ \E a \in AdminIds : Deactivate(a)
    \/ \E a \in AdminIds : Remove(a)

\* The monitoring cycles in full: two admins, every configuration, faulty
\* collaborators.  The monitoring interval is longer than a prime cycle, no
\* cron instant of auto_backup falls into the behaviour and the orchestrator
\* is started again only when no run is in flight, so the cycles follow one
\* another.
Init ==
    /\ Quiet
    /\ boot = BootDone
    /\ chat = NoChat
    /\ cfg \in [auto_delete : BOOLEAN, admin_chat : {TRUE},
                backup_interval : {BackupInterval("daily")}]
    /\ admins \in Stores
    /\ budget = MaxFaults
    /\ obs = NoObs
    /\ ev = EvIdle

TimerFireAfterPrime == start_pc # "monitor" /\ TimerFireMonitor

StartDrained ==
    /\ \A t \in MonTasks : mon[t].pc = "idle"
    /\ \A t \in BkTasks : bk[t].pc = "idle"
    /\ Start

Next ==
    \/ StartDrained
    \/ StartWhileRunning
    \/ PrimeMonitorReturn
    \/ PrimeBackupReturn
    \/ Stop
    \/ StopWhileStopped
    \/ TimerFireAfterPrime
    \/ TimerDropMonitor
    \/ MonitorSteps
    \/ BackupSteps
    \/ StoreChanges

Spec == Init /\ [][Next]_vars

\* The orchestrator in full: both triggers fire at any moment while the
\* timer runs, also during the prime run of start().  One admin, reliable
\* collaborators, the reaper switched off.
InitOrch ==
    /\ Quiet
    /\ boot = BootDone
    /\ chat = NoChat
    /\ cfg \in [auto_delete : {FALSE}, admin_chat : BOOLEAN,
                backup_interval : {BackupInterval("daily")}]
    /\ admins \in {[s EXCEPT ![AdminSeq[2]] = NoAdmin] : s \in Stores}
    /\ budget = 0
    /\ obs = NoObs
    /\ ev = EvIdle

NextOrch ==
    \/ Lifecycle
    \/ TimerFireMonitor
    \/ TimerDropMonitor
    \/ TimerFireBackup
    \/ TimerDropBackup
    \/ \E t \in MonTasks : MonList(t)
    \/ \E t \in MonTasks : CheckLookup(t)
    \/ \E t \in MonTasks : CheckStats(t)
    \/ \E t \in MonTasks : CheckReport(t)
    \/ \E t \in MonTasks : HandleLookup(t)
    \/ \E t \in MonTasks : HandleSend(t)
    \/ \E t \in MonTasks : PaceSleep(t)
    \/ \E t \in MonTasks : TimerMonitorReturn(t)
    \/ BackupSteps
    \/ \E t \in BkTasks : TimerBackupReturn(t)
    \/ StoreChanges

SpecOrch == InitOrch /\ [][NextOrch]_vars

\* Cycles that follow one another, as under Spec, with the classification of
\* the first admin remembered from one cycle to the next.  One admin,
\* reliable collaborators, the reaper switched off.
InitSeq ==
    /\ Quiet
    /\ boot = BootDone
    /\ chat = NoChat
    /\ cfg = [auto_delete |-> FALSE, admin_chat |-> TRUE,
              backup_interval |-> BackupInterval("daily")]
    /\ admins \in {[s EXCEPT ![AdminSeq[2]] = NoAdmin] : s \in Stores}
    /\ budget = 0
    /\ obs = [NoObs EXCEPT !.watch = AdminSeq[1]]
    /\ ev = EvIdle

NextSeq ==
    \/ StartDrained
    \/ StartWhileRunning
    \/ PrimeMonitorReturn
    \/ PrimeBackupReturn
    \/ Stop
    \/ StopWhileStopped
    \/ TimerFireAfterPrime
    \/ TimerDropMonitor
    \/ \E t \in MonTasks : MonList(t)
    \/ \E t \in MonTasks : CheckLookup(t)
    \/ \E t \in MonTasks : CheckStats(t)
    \/ \E t \in MonTasks : CheckReport(t)
    \/ \E t \in MonTasks : HandleLookup(t)
    \/ \E t \in MonTasks : HandleSend(t)
    \/ \E t \in MonTasks : PaceSleep(t)
    \/ \E t \in MonTasks : TimerMonitorReturn(t)
    \/ BackupSteps
    \/ StoreChanges
    \/ \E a \in AdminIds : ChangeCeiling(a)

SpecSeq == InitSeq /\ [][NextSeq]_vars

\* The same cycles with faulty collaborators; the observed admin is
\* remembered as "failed" when its check failed.
InitRetry ==
    /\ Quiet
    /\ boot = BootDone
    /\ chat = NoChat
    /\ cfg = [auto_delete |-> FALSE, admin_chat |-> TRUE,
              backup_interval |-> BackupInterval("daily")]
    /\ admins \in {[s EXCEPT ![AdminSeq[2]] = NoAdmin] : s \in Stores}
    /\ budget = MaxFaults
    /\ obs = [NoObs EXCEPT !.watch = AdminSeq[1]]
    /\ ev = EvIdle

SpecRetry == InitRetry /\ [][NextSeq]_vars

\* The orchestrator and the backup job with faulty collaborators: the start
\* of the timer, create_backup, add_log and send_message may raise.  The
\* admin table is empty, so a monitoring cycle returns after its enumeration.
InitLife ==
    /\ Quiet
    /\ boot = BootDone
    /\ chat = NoChat
    /\ cfg \in [auto_delete : {FALSE}, admin_chat : BOOLEAN,
                backup_interval : {BackupInterval(raw) : raw \in RawIntervals}]
    /\ admins = [a \in AdminIds |-> NoAdmin]
    /\ budget = MaxFaults
    /\ obs = NoObs
    /\ ev = EvIdle

NextLife ==
    \/ Lifecycle
    \/ StartTimerFails
    \/ TimerFireMonitor
    \/ TimerDropMonitor
    \/ TimerFireBackup
    \/ TimerDropBackup
    \/ \E t \in MonTasks : MonList(t)
    \/ \E t \in MonTasks : TimerMonitorReturn(t)
    \/ BackupSteps
    \/ \E t \in BkTasks : TimerBackupReturn(t)

SpecLife == InitLife /\ [][NextLife]_vars

\* The process from main() on: the startup checks, setup(), the start of
\* the orchestrator by start_polling() and its stop by cleanup().  Reliable
\* collaborators after startup, an empty admin table.
InitBoot ==
    /\ Quiet
    /\ boot \in [pc : {"main"}, token : {"set", "empty", "placeholder"},
                 sudo : BOOLEAN, db : {"untested"}, panel : {"untested"},
                 ended : {"none"}]
    /\ chat = NoChat
    /\ cfg \in [auto_delete : {FALSE}, admin_chat : BOOLEAN,
                backup_interval : {BackupInterval("daily")}]
    /\ admins = [a \in AdminIds |-> NoAdmin]
    /\ budget = MaxFaults
    /\ obs = NoObs
    /\ ev = EvIdle

NextBoot ==
    \/ MainChecks
    \/ InitDb
    \/ TestConnection
    \/ StartupMessage
    \/ BootStart
    \/ BootStartFails
    \/ StartInterrupted
    \/ PrimeMonitorReturn
    \/ PrimeBackupReturn
    \/ Cleanup
    \/ TimerFireMonitor
    \/ TimerDropMonitor
    \/ TimerFireBackup
    \/ TimerDropBackup
    \/ \E t \in MonTasks : MonList(t)
    \/ \E t \in MonTasks : TimerMonitorReturn(t)
    \/ BackupSteps
    \/ \E t \in BkTasks : TimerBackupReturn(t)

SpecBoot == InitBoot /\ [][NextBoot]_vars

\* The Panel Client key: one active admin whose two usernames are None, the
\* empty string or a name, watched through one cycle with the reaper
\* switched on.  Reliable collaborators, no timer firing.
NameChoices(name) == {<<>>, <<"">>, <<name>>}
UserIdChoices == {7, 101}

InitNames ==
    /\ Quiet
    /\ boot = BootDone
    /\ chat = NoChat
    /\ cfg = [auto_delete |-> TRUE, admin_chat |-> TRUE,
              backup_interval |-> BackupInterval("daily")]
    /\ admins \in { [a \in AdminIds |->
                        IF a = AdminSeq[1]
                        THEN [AdminRow(a, TRUE) EXCEPT !.marzban_username = mu,
                                                       !.username = lu,
                                                       !.user_id = uid]
                        ELSE NoAdmin] :
                    mu \in NameChoices("panel"), lu \in NameChoices("local"),
                    uid \in UserIdChoices }
    /\ budget = 0
    /\ obs = [NoObs EXCEPT !.watch = AdminSeq[1]]
    /\ ev = EvIdle

NextNames ==
    \/ StartDrained
    \/ PrimeMonitorReturn
    \/ PrimeBackupReturn
    \/ Stop
    \/ \E t \in MonTasks : ReaperList(t)
    \/ \E t \in MonTasks : ReaperGetUsers(t)
    \/ \E t \in MonTasks : ReaperRemove(t)
    \/ \E t \in MonTasks : ReaperSleepUser(t)
    \/ \E t \in MonTasks : ReaperSleepAdmin(t)
    \/ \E t \in MonTasks : ReaperLog(t)
    \/ \E t \in MonTasks : MonList(t)
    \/ \E t \in MonTasks : CheckLookup(t)
    \/ \E t \in MonTasks : CheckStats(t)
    \/ \E t \in MonTasks : CheckReport(t)
    \/ \E t \in MonTasks : HandleLookup(t)
    \/ \E t \in MonTasks : HandleSend(t)
    \/ \E t \in MonTasks : PaceSleep(t)
    \/ BackupSteps

SpecNames == InitNames /\ [][NextNames]_vars

\* Progress: the cycles under an event loop that runs every task that can
\* take a step, with collaborator calls that return or raise.  One admin,
\* the reaper on or off, the interval trigger firing at any moment while the
\* timer runs; start() and stop() are called at any moment or never.
InitFair ==
    /\ Quiet
    /\ boot = BootDone
    /\ chat = NoChat
    /\ cfg \in [auto_delete : BOOLEAN, admin_chat : {TRUE},
                backup_interval : {BackupInterval("daily")}]
    /\ admins \in {[s EXCEPT ![AdminSeq[2]] = NoAdmin] : s \in Stores}
    /\ budget = MaxFaults
    /\ obs = NoObs
    /\ ev = EvIdle

\* the steps of one execution of monitor_all_admins, its return to the timer
\* included
MonRun(t) ==
    \/ ReaperList(t)
    \/ ReaperGetUsers(t)
    \/ ReaperRemove(t)
    \/ ReaperSleepUser(t)
    \/ ReaperSleepAdmin(t)
    \/ ReaperLog(t)
    \/ MonList(t)
    \/ CheckLookup(t)
    \/ CheckStats(t)
    \/ CheckReport(t)
    \/ HandleLookup(t)
    \/ HandleSend(t)
    \/ PaceSleep(t)
    \/ TimerMonitorReturn(t)

NextFair ==
    \/ Start
    \/ StartWhileRunning
    \/ PrimeMonitorReturn
    \/ PrimeBackupReturn
    \/ Stop
    \/ StopWhileStopped
    \/ TimerFireMonitor
    \/ TimerDropMonitor
    \/ \E t \in MonTasks : MonRun(t)
    \/ BackupSteps

SpecFair ==
    /\ InitFair
    /\ [][NextFair]_vars
    /\ \A t \in MonTasks : WF_vars(MonRun(t))

\* The backup callbacks alone: any chat user presses any button, under every
\* non-empty SUDO_ADMINS (main() returns when the list is empty).
InitChat ==
    /\ Quiet
    /\ boot = BootDone
    /\ chat \in {[NoChat EXCEPT !.sudo_admins = sa] : sa \in (SUBSET ChatUsers) \ {{}}}
    /\ cfg = [auto_delete |-> FALSE, admin_chat |-> FALSE,
              backup_interval |-> BackupInterval("daily")]
    /\ admins = [a \in AdminIds |-> NoAdmin]
    /\ budget = 0
    /\ obs = NoObs
    /\ ev = EvIdle

NextChat ==
    \/ \E u \in ChatUsers, data \in CallbackData : create_backup(u, data)
    \/ \E u \in ChatUsers, data \in CallbackData : list_backups(u, data)
    \/ \E u \in ChatUsers, data \in CallbackData : restore_backup(u, data)

SpecChat == InitChat /\ [][NextChat]_vars

\* The Limit Evaluator alone, applied to every input within the bounds.
EvCeilings == {0, 5, MaxCeiling}
EvCurrents == 0..(MaxCeiling + 1)
EvElapsed == (-1)..(MaxCeiling + 1)

InitEval ==
    /\ Quiet
    /\ boot = BootDone
    /\ chat = NoChat
    /\ cfg = [auto_delete |-> FALSE, admin_chat |-> FALSE,
              backup_interval |-> BackupInterval("daily")]
    /\ admins = [a \in AdminIds |-> AdminRow(a, TRUE)]
    /\ budget = 0
    /\ obs = NoObs
    /\ ev \in { [EvIdle EXCEPT
                    !.admin = [AdminRow(1, TRUE) EXCEPT !.max_users = mu,
                                    !.max_total_time = mt, !.max_total_traffic = mf],
                    !.stats = [total_users |-> u, total_traffic_used |-> f],
                    !.elapsed = el] :
                mu \in EvCeilings, mt \in EvCeilings, mf \in EvCeilings,
                u \in EvCurrents, f \in EvCurrents, el \in EvElapsed }

\* lines 37-55 and 67-83 applied to the input
EvalApply ==
    /\ ~ev.done
    /\ ev.admin # NoAdmin
    /\ ev' = [ev EXCEPT !.result = Evaluate(ev.admin, ev.stats, ev.elapsed),
                        !.done = TRUE]
    /\ UNCHANGED <<boot, cfg, admins, is_running, timer, jobs, trigger, start_pc, mon, hist, bk, budget, obs, chat>>

NextEval == EvalApply

SpecEval == InitEval /\ [][NextEval]_vars

\* ------------------------------------------------------------------ claims
SnapIds(t) == {mon[t].snap[k].id : k \in 1..Len(mon[t].snap)}

\* admins whose check has settled its report in the cycle of t
Settled(t) ==
    hist[t].visited \ (IF mon[t].pc \in {"stats", "report"} THEN {Cur(t)} ELSE {})

\* kinds of the notifications sent to a in the cycle of t
Kinds(t, a) == {hist[t].notifs[a][k].kind : k \in 1..Len(hist[t].notifs[a])}

\* the enumeration of a finished cycle held active admins only, all still
\* active, get_admin_stats raised for a, and no other call of the cycle raised
OnlyStatsFailed(t, a) ==
    /\ mon[t].pc = "done"
    /\ a \in SnapIds(t)
    /\ \A k \in 1..Len(mon[t].snap) : mon[t].snap[k].is_active
    /\ \A b \in SnapIds(t) : admins[b] # NoAdmin /\ admins[b].is_active
    /\ hist[t].fail[a] = "stats"
    /\ \A b \in SnapIds(t) \ {a} : hist[t].fail[b] = "none"

\* C1: a cycle over N active admins in which get_admin_stats raises for
\* exactly one admin and nothing else fails ends normally, has checked every
\* admin of the enumeration, those after the failing one included, and has
\* appended one report for each admin but the failing one: N-1 reports.
C1_OneFailureIsolated ==
    \A t \in MonTasks : \A a \in AdminIds :
        OnlyStatsFailed(t, a) =>
            /\ hist[t].visited = SnapIds(t)
            /\ hist[t].reports[a] = 0
            /\ \A b \in SnapIds(t) \ {a} : hist[t].reports[b] = 1

C1_Witness ==
    \E t \in MonTasks :
        /\ OnlyStatsFailed(t, AdminSeq[1])
        /\ Len(mon[t].snap) = 2
        /\ hist[t].reports[AdminSeq[2]] = 1

\* C2: check_admin_limits_by_id never raises; when the lookup, the stats
\* call or the report append fails it returns a result with exceeded and
\* warning both false.
C2_CheckNeverRaises ==
    \A t \in MonTasks :
        /\ ~hist[t].check_raised
        /\ (mon[t].pc = "sleep" /\ hist[t].fail[Cur(t)] \in {"stats", "report"})
                => (~mon[t].res.exceeded /\ ~mon[t].res.warning)

\* C3: of each job identity at most one timer-fired instance executes at any
\* time; a firing that finds an instance running starts nothing.
C3_OneInstancePerJob ==
    /\ Cardinality(Busy(MonSlots, mon)) <= 1
    /\ Cardinality(Busy(BkSlots, bk)) <= 1

C3_Witness ==
    /\ ENABLED TimerDropMonitor
    /\ ENABLED TimerDropBackup
    /\ Cardinality(Busy(MonSlots, mon)) = 1
    /\ Cardinality(Busy(BkSlots, bk)) = 1

\* C4: no timer-fired monitor_all_admins begins while start() is in its
\* prime monitoring cycle, and no timer-fired run_auto_backup begins before
\* the prime backup of start() has completed.
C4_NoFiringBeforePrimeDone ==
    [][ /\ (\E k \in 1..Len(MonSlots) :
                mon[MonSlots[k]].pc = "idle" /\ mon'[MonSlots[k]].pc # "idle")
            => start_pc # "monitor"
        /\ (\E k \in 1..Len(BkSlots) :
                bk[BkSlots[k]].pc = "idle" /\ bk'[BkSlots[k]].pc # "idle")
            => start_pc \notin {"monitor", "backup"} ]_vars

\* C5: in one cycle an admin never gets more than one usage report, and an
\* admin whose check has settled has exactly one report if its stats fetch
\* and its report write succeeded, whatever the classification, and none
\* otherwise.
C5_OneReportPerAdmin ==
    \A t \in MonTasks : \A a \in AdminIds :
        /\ hist[t].reports[a] <= 1
        /\ a \notin hist[t].visited => hist[t].reports[a] = 0
        /\ a \in Settled(t) =>
            (hist[t].reports[a] = 1 <=>
                /\ hist[t].stats_calls[a] = 1
                /\ hist[t].fail[a] \notin {"stats", "report"})

C5_Witness ==
    \E t \in MonTasks :
        /\ mon[t].pc = "sleep"
        /\ hist[t].stats_calls[Cur(t)] = 1
        /\ hist[t].reports[Cur(t)] = 1
        /\ Classify(mon[t].res) = "ok"

\* C6: an admin the lookup of check_admin_limits_by_id finds missing or
\* inactive gets a result with exceeded and warning false, no Panel Client
\* call, no usage report and no notification in that cycle; the reaper makes
\* no get_users call for an admin its enumeration holds as inactive.
C6_InactiveUntouched ==
    \A t \in MonTasks :
        /\ \A a \in AdminIds :
            hist[t].found[a] \in {"missing", "inactive"} =>
                /\ hist[t].stats_calls[a] = 0
                /\ hist[t].reports[a] = 0
                /\ hist[t].notifs[a] = <<>>
                /\ (mon[t].pc = "sleep" /\ Cur(t) = a)
                        => (~mon[t].res.exceeded /\ ~mon[t].res.warning)
        /\ \A k \in 1..Len(mon[t].snap) :
            ~mon[t].snap[k].is_active => hist[t].users_calls[mon[t].snap[k].id] = 0

C6_Witness ==
    \E t \in MonTasks : \E a, b \in AdminIds :
        /\ hist[t].found[a] = "inactive"
        /\ hist[t].found[b] = "missing"
        /\ mon[t].pc = "sleep"

\* C7: in one cycle an admin is sent at most one limit notification, to its
\* own user_id: the exceeded message when the result is exceeded, otherwise
\* the warning message when the result is warning, otherwise none.
C7_AtMostOneNotice ==
    \A t \in MonTasks : \A a \in AdminIds :
        /\ Len(hist[t].notifs[a]) <= 1
        /\ \A k \in 1..Len(hist[t].notifs[a]) : hist[t].notifs[a][k].to = UserIdOf(a)
        /\ (mon[t].pc = "sleep" /\ Cur(t) = a) =>
            /\ mon[t].res.exceeded => Kinds(t, a) \subseteq {"exceeded"}
            /\ (~mon[t].res.exceeded /\ mon[t].res.warning)
                    => Kinds(t, a) \subseteq {"warning"}
            /\ (~mon[t].res.exceeded /\ ~mon[t].res.warning) => Kinds(t, a) = {}

C7_Witness ==
    \E t \in MonTasks :
        /\ mon[t].pc = "sleep"
        /\ mon[t].res.exceeded
        /\ mon[t].res.warning
        /\ hist[t].notifs[Cur(t)] =
                <<[kind |-> "exceeded", to |-> UserIdOf(Cur(t))]>>

\* the check of the observed admin has ended with the classification the
\* admin had in the cycle before
SameAsBefore(t) ==
    /\ mon[t].pc = "sleep"
    /\ Cur(t) = obs.watch
    /\ hist[t].reports[Cur(t)] = 1
    /\ Classify(mon[t].res) = obs.cls

\* C8 as stated: an admin whose classification is the same as in the
\* previous cycle receives no notification in the current cycle.
C8_NoRepeatedNotice ==
    \A t \in MonTasks : SameAsBefore(t) => hist[t].notifs[Cur(t)] = <<>>

\* C8 as amended: the notification follows from the classification of the
\* current cycle alone.  An admin whose classification is the same as in
\* the previous cycle is sent the message of that classification again when
\* it is warning or exceeded, provided its row is found and the send
\* succeeds, and is sent nothing when it is ok.
C8_NoticeEveryCycle ==
    \A t \in MonTasks :
        (/\ SameAsBefore(t)
         /\ admins[Cur(t)] # NoAdmin
         /\ hist[t].fail[Cur(t)] = "none")
        => hist[t].notifs[Cur(t)] =
                IF obs.cls = "ok" THEN <<>>
                ELSE <<[kind |-> obs.cls, to |-> UserIdOf(Cur(t))]>>

C8_Witness ==
    \E t \in MonTasks :
        /\ SameAsBefore(t)
        /\ obs.cls = "warning"
        /\ Len(hist[t].notifs[Cur(t)]) = 1

\* current value and ceiling of the three dimensions of an evaluation
Dimensions ==
    { <<ev.elapsed, ev.admin.max_total_time>>,
      <<ev.stats.total_users, ev.admin.max_users>>,
      <<ev.stats.total_traffic_used, ev.admin.max_total_traffic>> }

\* C9: exceeded is true exactly when some dimension has a ceiling > 0 and a
\* current value >= the ceiling; the percentage of a dimension whose ceiling
\* is 0 is exactly 0.
C9_ExceededIff ==
    ev.done =>
        /\ ev.result.exceeded <=> \E d \in Dimensions : d[2] > 0 /\ d[1] >= d[2]
        /\ ev.admin.max_total_time = 0 => ev.result.limits_data.time_percentage = Zero
        /\ ev.admin.max_users = 0 => ev.result.limits_data.user_percentage = Zero
        /\ ev.admin.max_total_traffic = 0
                => ev.result.limits_data.traffic_percentage = Zero

C9_Witness ==
    /\ ev.done
    /\ ev.admin.max_users = MaxCeiling
    /\ ev.stats.total_users = MaxCeiling
    /\ ev.admin.max_total_traffic = 0
    /\ ev.stats.total_traffic_used > 0
    /\ ev.admin.max_total_time = 0
    /\ ev.result.exceeded

\* C10: warning is true exactly when some dimension with a ceiling > 0 has
\* 0.6 <= current / ceiling < 1.0, whether or not the result is exceeded.
C10_WarningIff ==
    ev.done =>
        (ev.result.warning <=>
            \E d \in Dimensions : d[2] > 0 /\ 3 * d[2] <= 5 * d[1] /\ d[1] < d[2])

C10_Witness ==
    /\ ev.done
    /\ ev.result.warning
    /\ ev.result.exceeded

\* ------------------------------------------------------------ backup job
\* C11: a run_auto_backup whose create_backup returned (False, msg) ends
\* with exactly one diagnostic entry that carries msg and with no outbound
\* notification.
C11_FailureLoggedOnly ==
    \A t \in BkTasks :
        (bk[t].pc # "idle" /\ ~bk[t].success /\ bk[t].err = "none") =>
            /\ bk[t].pc = "done"
            /\ bk[t].printed = 1
            /\ bk[t].sent = 0

C11_Witness ==
    \E t \in BkTasks :
        /\ bk[t].pc = "done"
        /\ ~bk[t].success
        /\ bk[t].err = "none"
        /\ bk[t].printed = 1

\* C12: no exception leaves run_auto_backup, whether create_backup returns a
\* failure or raises, add_log raises or send_message raises.
C12_BackupNeverRaises == \A t \in BkTasks : bk[t].pc # "raised"

C12_Witness ==
    \E t \in BkTasks :
        /\ bk[t].pc = "done"
        /\ bk[t].err \in {"create", "add_log", "send"}
        /\ bk[t].printed = 1

\* C13 as stated: every run_auto_backup whose create_backup returned
\* (True, filename) ends with one auto_backup log entry in the store and one
\* notification sent to the operator channel.
C13_AlwaysLoggedAndNotified ==
    \A t \in BkTasks :
        (bk[t].pc = "done" /\ bk[t].success) => (bk[t].logs = 1 /\ bk[t].sent = 1)

\* C13: a run_auto_backup whose create_backup returned (True, filename)
\* ends with one auto_backup log entry unless add_log raised, and with one
\* notification to the operator channel when add_log did not raise, the
\* channel is configured and send_message did not raise; otherwise with no
\* notification.
C13_LoggedAndNotifiedWhenPossible ==
    \A t \in BkTasks :
        (bk[t].pc = "done" /\ bk[t].success) =>
            /\ bk[t].logs = (IF bk[t].err = "add_log" THEN 0 ELSE 1)
            /\ bk[t].sent = (IF bk[t].err = "none" /\ cfg.admin_chat THEN 1 ELSE 0)

C13_Witness ==
    \E t \in BkTasks :
        /\ bk[t].pc = "done"
        /\ bk[t].success
        /\ bk[t].err = "none"
        /\ cfg.admin_chat
        /\ bk[t].logs = 1
        /\ bk[t].sent = 1

\* ---------------------------------------------------------- orchestrator
\* C14: start() on a stopped orchestrator registers admin_monitor and
\* auto_backup and starts the timer before its prime monitoring cycle
\* begins, begins run_auto_backup only when that cycle has run to completion,
\* returns only when run_auto_backup has completed, and makes no other prime
\* run.
C14_StartOrder ==
    [][ /\ (start_pc = "idle" /\ start_pc' # "idle") =>
                /\ ~is_running
                /\ start_pc' = "monitor"
                /\ \A id \in JobIds : jobs'[id] = 1
                /\ timer' = "running"
                /\ is_running'
                /\ mon'["prime"].pc \notin {"idle", "done"}
        /\ (start_pc = "monitor" /\ start_pc' # "monitor") =>
                /\ mon["prime"].pc = "done"
                /\ start_pc' = "backup"
                /\ bk'["prime"].pc # "idle"
        /\ (start_pc = "backup" /\ start_pc' # "backup") =>
                /\ bk["prime"].pc = "done"
                /\ start_pc' = "idle"
        /\ (mon["prime"].pc = "idle" /\ mon'["prime"].pc # "idle") =>
                (start_pc = "idle" /\ start_pc' = "monitor")
        /\ (bk["prime"].pc = "idle" /\ bk'["prime"].pc # "idle") =>
                (start_pc = "monitor" /\ start_pc' = "backup")
      ]_vars

C14_Witness ==
    /\ start_pc = "backup"
    /\ bk["prime"].pc = "done"
    /\ bk["prime"].success
    /\ mon["prime"].pc = "idle"
    /\ is_running
    /\ timer = "running"
    /\ \A id \in JobIds : jobs[id] = 1

\* C15: while the orchestrator is running no step registers or replaces a
\* job, starts the timer or begins a prime monitoring cycle, and a prime
\* backup begins only as the second half of the start() that made the
\* orchestrator run: start() while running changes nothing.
C15_StartWhileRunningChangesNothing ==
    [][ is_running =>
            /\ (jobs' # jobs => ~is_running')
            /\ (timer' # timer => ~is_running')
            /\ ~(mon["prime"].pc = "idle" /\ mon'["prime"].pc # "idle")
            /\ (bk["prime"].pc = "idle" /\ bk'["prime"].pc # "idle") =>
                    start_pc = "monitor"
            /\ (start_pc = "idle" => start_pc' = "idle")
      ]_vars

C15_Witness ==
    /\ is_running
    /\ start_pc = "idle"
    /\ \E t \in MonTasks : mon[t].pc \notin {"idle", "done"}
    /\ \E t \in BkTasks : bk[t].pc \notin {"idle", "done"}

\* the executions the timer has started
TimerMonTasks == MonTasks \ {"prime"}
TimerBkTasks == BkTasks \ {"prime"}

\* C16: the step that takes the orchestrator from running to stopped halts
\* the timer and leaves every run in flight as it is; while the orchestrator
\* stays stopped the timer stays halted, no timer-fired run of either job
\* begins, and the registrations do not change, so stop() on a stopped
\* orchestrator changes nothing.
C16_StopHaltsTimer ==
    [][ /\ (is_running /\ ~is_running') =>
                /\ timer' = "stopped"
                /\ mon' = mon
                /\ bk' = bk
                /\ start_pc' = start_pc
        /\ (~is_running /\ ~is_running') =>
                /\ timer = "stopped"
                /\ timer' = "stopped"
                /\ jobs' = jobs
                /\ \A t \in TimerMonTasks : mon[t].pc = "idle" => mon'[t].pc = "idle"
                /\ \A t \in TimerBkTasks : bk[t].pc = "idle" => bk'[t].pc = "idle"
      ]_vars

C16_Witness ==
    /\ ~is_running
    /\ timer = "stopped"
    /\ \E t \in TimerMonTasks : mon[t].pc \notin {"idle", "done"}
    /\ \E t \in TimerBkTasks : bk[t].pc \notin {"idle", "done"}

\* C17: get_status reports the running flag as it is; on a stopped
\* orchestrator a job count of 0 and no next-fire time, whatever is
\* registered; on a running one the number of registered jobs and a
\* next-fire time for admin_monitor and for auto_backup.
C17_StatusMatchesState ==
    /\ GetStatus.running = is_running
    /\ ~is_running =>
            /\ GetStatus.jobs = 0
            /\ GetStatus.next_monitor_run = "null"
            /\ GetStatus.next_backup_run = "null"
    /\ is_running =>
            /\ GetStatus.jobs = Cardinality({id \in JobIds : jobs[id] > 0})
            /\ GetStatus.jobs = Cardinality(JobIds)
            /\ GetStatus.next_monitor_run = "time"
            /\ GetStatus.next_backup_run = "time"

C17_Witness ==
    /\ is_running
    /\ start_pc = "idle"
    /\ GetStatus.jobs = Cardinality(JobIds)
    /\ GetStatus.next_monitor_run = "time"

\* C18: no job identity is ever registered more than once, also when
\* start() registers the jobs of an earlier start() again.
C18_OneJobPerIdentity == \A id \in JobIds : jobs[id] <= 1

\* both identities are registered on a stopped orchestrator, left by a
\* start() whose timer did not start; the next start() registers them again
C18_Witness ==
    /\ ~is_running
    /\ start_pc = "idle"
    /\ \A id \in JobIds : jobs[id] = 1

\* ----------------------------------------------------------------- reaper
\* C19: every user cleanup_expired_users has had removed was flagged expired
\* in the list get_users returned.
C19_OnlyExpiredRemoved ==
    \A t \in MonTasks : \A r \in hist[t].removed : r.is_expired

ReaperPcs ==
    {"r_list", "r_getusers", "r_remove", "r_sleep_user", "r_sleep_admin", "r_log"}

\* C20: when cleanup_expired_users has ended and the monitoring pass is
\* about to enumerate the admins, get_users has been called for every admin
\* that was active in the reaper's enumeration and remove_user for every user
\* of every list returned, whatever raised on the way; and cleanup_expired_users
\* ends in no other way than by handing over to the monitoring pass.
C20_ReaperFailuresIsolated ==
    /\ [](\A t \in MonTasks :
            mon[t].pc = "m_list" =>
                /\ hist[t].r_pending = {}
                /\ \A a \in AdminIds : hist[t].r_owed[a] = 0)
    /\ [][\A t \in MonTasks :
            mon[t].pc \in ReaperPcs => mon'[t].pc \in ReaperPcs \cup {"m_list"}]_vars

C20_Witness ==
    \E t \in MonTasks : \E a \in AdminIds :
        /\ mon[t].pc = "m_list"
        /\ hist[t].fail[a] = "remove_user"
        /\ \E r \in hist[t].removed : r.admin = a /\ r.user = 2
        /\ hist[t].users_calls = [b \in AdminIds |-> 1]

\* remove_user calls of the reaper run of t that returned true
RemovedCount(t) == Cardinality({r \in hist[t].removed : r.success})

C22_ReaperSkippable ==
    /\ [](~cfg.auto_delete =>
            \A t \in MonTasks :
                /\ mon[t].pc \notin ReaperPcs
                /\ \A a \in AdminIds : hist[t].users_calls[a] = 0
                /\ hist[t].removed = {}
                /\ hist[t].cleanup_logs = <<>>)
    /\ [][\A t \in MonTasks :
            (mon[t].pc = "m_list" /\ mon'[t].pc # "m_list") =>
                /\ hist'[t] = NoHist
                /\ mon'[t] \in {MonEntry(AllAdmins), [IdleMon EXCEPT !.pc = "done"]}]_vars

C22_Witness ==
    \E t \in MonTasks :
        /\ ~cfg.auto_delete
        /\ mon[t].pc = "done"
        /\ hist[t].visited = AdminIds
        /\ \A a \in AdminIds : hist[t].reports[a] = 1

\* positions of an execution inside the per-admin loop
MonLoopPcs == {"lookup", "stats", "report", "h_lookup", "h_send", "sleep"}

\* the admins whose check has started in the loop of t: those before the
\* current index, and the current one once its lookup has been made
Started(t) ==
    {mon[t].snap[k].id : k \in 1..(mon[t].i - 1)}
        \cup (IF mon[t].pc = "lookup" THEN {} ELSE {Cur(t)})

\* C23: in the loop of a cycle the admins whose check has started are
\* exactly those up to the current position of the enumeration, and no
\* lookup, stats fetch, report or notification has been made for an admin
\* after that position: the checks are made one at a time in enumeration
\* order.
C23_OneAtATimeInOrder ==
    \A t \in MonTasks :
        /\ mon[t].pc \in MonLoopPcs =>
            /\ hist[t].visited = Started(t)
            /\ \A k \in (mon[t].i + 1)..Len(mon[t].snap) :
                LET b == mon[t].snap[k].id
                IN  /\ hist[t].found[b] = "none"
                    /\ hist[t].stats_calls[b] = 0
                    /\ hist[t].reports[b] = 0
                    /\ hist[t].notifs[b] = <<>>
        /\ (mon[t].pc = "done" /\ mon[t].i > 0) => hist[t].visited = SnapIds(t)

C23_Witness ==
    \E t \in MonTasks :
        /\ mon[t].pc = "stats"
        /\ mon[t].i = 2
        /\ hist[t].reports[mon[t].snap[1].id] = 1
        /\ Len(hist[t].notifs[mon[t].snap[1].id]) = 1

\* C24: the row a check works on is the row the store holds when the check
\* looks it up, not a row read earlier: the evaluation uses that row's
\* ceilings, and an admin the lookup finds inactive gets no Panel Client
\* call and no report in that cycle, whatever earlier cycles saw.
C24_RowsReadEveryCycle ==
    /\ [][\A t \in MonTasks :
            (mon[t].pc = "lookup" /\ mon'[t].pc \in {"stats", "sleep"}) =>
                /\ mon'[t].adm = admins[Cur(t)]
                /\ hist'[t].found[Cur(t)] = Found(admins[Cur(t)])]_vars
    /\ [](\A t \in MonTasks :
            /\ mon[t].pc = "report" =>
                /\ mon[t].res.limits_data.max_users = mon[t].adm.max_users
                /\ mon[t].res.exceeded =
                        (mon[t].res.limits_data.current_users >= mon[t].adm.max_users
                         \/ mon[t].res.limits_data.traffic_percentage[1] >= mon[t].adm.max_total_traffic)
            /\ \A a \in AdminIds :
                hist[t].found[a] = "inactive" =>
                    (hist[t].stats_calls[a] = 0 /\ hist[t].reports[a] = 0))

\* the observed admin had a report in an earlier cycle and is found
\* inactive in this one
C24_Witness ==
    \E t \in MonTasks :
        /\ mon[t].pc = "sleep"
        /\ Cur(t) = obs.watch
        /\ obs.cls \in {"ok", "warning", "exceeded"}
        /\ hist[t].found[Cur(t)] = "inactive"
        /\ hist[t].stats_calls[Cur(t)] = 0
        /\ hist[t].reports[Cur(t)] = 0

\* C25: within one cycle get_admin_stats is called at most once for an
\* admin, also when the call or the report append that follows it raised;
\* and an admin whose check failed in the cycle before is checked in this
\* cycle like any other: found active and nothing raising, it gets its stats
\* call and its report.
C25_NoRetryInCycle ==
    \A t \in MonTasks :
        /\ \A a \in AdminIds : hist[t].stats_calls[a] <= 1
        /\ (mon[t].pc = "done" /\ mon[t].i > 0) => hist[t].visited = SnapIds(t)
        /\ (/\ mon[t].pc = "sleep"
            /\ Cur(t) = obs.watch
            /\ obs.cls = "failed"
            /\ hist[t].found[Cur(t)] = "active"
            /\ hist[t].fail[Cur(t)] = "none")
            => (hist[t].stats_calls[Cur(t)] = 1 /\ hist[t].reports[Cur(t)] = 1)

\* the check of the observed admin failed in the cycle before and succeeds
\* in this one
C25_Witness ==
    \E t \in MonTasks :
        /\ mon[t].pc = "sleep"
        /\ Cur(t) = obs.watch
        /\ obs.cls = "failed"
        /\ hist[t].stats_calls[Cur(t)] = 1
        /\ hist[t].reports[Cur(t)] = 1

\* the notification the result at hand calls for
Due(t) ==
    IF Dispatch(mon[t].res) = "none" THEN <<>>
    ELSE <<[kind |-> Dispatch(mon[t].res), to |-> UserIdOf(Cur(t))]>>

\* C26: when send_message raised for an admin, that admin has no
\* notification in the cycle and the loop is at its pacing delay or beyond,
\* never at the send again; an admin checked later in the cycle, found
\* active, still gets its report and the notification its result calls for;
\* and the cycle ends having checked every admin of its enumeration.
C26_SendFailureSwallowed ==
    \A t \in MonTasks : \A a \in AdminIds :
        hist[t].fail[a] = "send" =>
            /\ hist[t].notifs[a] = <<>>
            /\ (mon[t].pc \in MonLoopPcs /\ Cur(t) = a) => mon[t].pc = "sleep"
            /\ (/\ mon[t].pc = "sleep"
                /\ Cur(t) # a
                /\ hist[t].found[Cur(t)] = "active"
                /\ hist[t].fail[Cur(t)] = "none"
                /\ admins[Cur(t)] # NoAdmin)
                => (hist[t].reports[Cur(t)] = 1 /\ hist[t].notifs[Cur(t)] = Due(t))
            /\ mon[t].pc = "done" => hist[t].visited = SnapIds(t)

C26_Witness ==
    \E t \in MonTasks :
        /\ mon[t].pc = "sleep"
        /\ mon[t].i = 2
        /\ hist[t].fail[mon[t].snap[1].id] = "send"
        /\ hist[t].reports[Cur(t)] = 1
        /\ Len(hist[t].notifs[Cur(t)]) = 1

\* ---------------------------------------------------------------- startup
\* the orchestrator has never been started: nothing registered, the timer
\* halted, no prime run and no timer-fired run
NeverScheduled ==
    /\ ~is_running
    /\ timer = "stopped"
    /\ \A id \in JobIds : jobs[id] = 0
    /\ start_pc = "idle"
    /\ \A t \in MonTasks : mon[t].pc = "idle"
    /\ \A t \in BkTasks : bk[t].pc = "idle"

\* C27: when BOT_TOKEN or SUDO_ADMINS is missing, or db.init_db() raised,
\* main() never comes to start_polling and the orchestrator is never
\* started.
C27_NoSchedulingAfterFatalStartup ==
    (boot.token # "set" \/ ~boot.sudo \/ boot.db = "raise") =>
        (boot.pc # "start_polling" /\ NeverScheduled)

C27_Witness ==
    /\ boot.pc = "exited"
    /\ boot.token = "set"
    /\ boot.sudo
    /\ boot.db = "raise"
    /\ NeverScheduled

\* C28: when test_connection returned false or raised, the orchestrator is
\* never started.
C28_NoSchedulingWithoutPanel ==
    boot.panel \in {"false", "raise"} => NeverScheduled

\* ------------------------------------------------- order inside a cycle
\* C29: with AUTO_DELETE_EXPIRED_USERS true every execution of
\* monitor_all_admins begins with cleanup_expired_users and comes to the
\* enumeration of the monitoring pass only from it; while it is inside
\* cleanup_expired_users it has made no check and no get_admin_stats call.
C29_ReaperBeforeMonitoring ==
    /\ [](\A t \in MonTasks :
            mon[t].pc \in ReaperPcs =>
                /\ hist[t].visited = {}
                /\ \A a \in AdminIds : hist[t].stats_calls[a] = 0)
    /\ [][cfg.auto_delete =>
            \A t \in MonTasks :
                /\ (mon[t].pc = "idle" /\ mon'[t].pc # "idle") => mon'[t].pc = "r_list"
                /\ (mon[t].pc # "m_list" /\ mon'[t].pc = "m_list")
                        => mon[t].pc \in ReaperPcs]_vars

C29_Witness ==
    \E t \in MonTasks :
        /\ cfg.auto_delete
        /\ mon[t].pc = "m_list"
        /\ hist[t].removed # {}
        /\ \A a \in AdminIds : hist[t].stats_calls[a] = 0

\* C30: the loop leaves an admin for which get_admin_stats has been called
\* only through its pacing delay, also when that call or the report append
\* raised.
C30_PacingBetweenStatsCalls ==
    [][\A t \in MonTasks :
        (/\ mon[t].pc \in MonLoopPcs
         /\ mon'[t].i # mon[t].i
         /\ hist[t].stats_calls[Cur(t)] + hist'[t].stats_calls[Cur(t)] > 0)
        => mon[t].pc = "sleep"]_vars

\* get_admin_stats raised for the first admin and the check of the second
\* is about to call it
C30_Witness ==
    \E t \in MonTasks :
        /\ mon[t].pc = "stats"
        /\ mon[t].i = 2
        /\ hist[t].fail[mon[t].snap[1].id] = "stats"
        /\ hist[t].stats_calls[mon[t].snap[1].id] = 1

\* ------------------------------------------------------- result of a check
\* C31: the limits_data of a computed result holds the raw pairs the
\* percentages were computed from: the observed users, traffic and elapsed
\* seconds, and the admin's three ceilings.
C31_LimitsDataHoldsRawPairs ==
    ev.done =>
        LET d == ev.result.limits_data
        IN  /\ d.current_users = ev.stats.total_users
            /\ d.current_traffic = ev.stats.total_traffic_used
            /\ d.current_time = ev.elapsed
            /\ d.max_users = ev.admin.max_users
            /\ d.max_traffic = ev.admin.max_total_traffic
            /\ d.max_time = ev.admin.max_total_time

\* ------------------------------------------------------- Panel Client key
IsSet(name) == name # <<>> /\ name[1] # ""

\* the key by the priority order: remote username, local username, user_id
KeyByPriority(admin) ==
    IF IsSet(admin.marzban_username) THEN admin.marzban_username[1]
    ELSE IF IsSet(admin.username) THEN admin.username[1]
    ELSE Str(admin.user_id)

\* C32: get_admin_stats of the monitor and get_users of the reaper are both
\* called with the admin's remote username when it is set, otherwise with its
\* local username when that is set, otherwise with the decimal text of its
\* user_id.
C32_PanelKeyPriority ==
    obs.watch \in AdminIds =>
        /\ obs.stats_key # <<>> => obs.stats_key[1] = KeyByPriority(admins[obs.watch])
        /\ obs.users_key # <<>> => obs.users_key[1] = KeyByPriority(admins[obs.watch])

\* both calls of one cycle were made for an admin whose remote username is
\* empty and whose local username is set
C32_Witness ==
    /\ obs.watch \in AdminIds
    /\ admins[obs.watch].marzban_username = <<"">>
    /\ admins[obs.watch].username = <<"local">>
    /\ obs.stats_key = <<"local">>
    /\ obs.users_key = <<"local">>

\* ------------------------------------------------------ auto_backup trigger
\* the trigger the setting stands for: daily, weekly (day of week 0 of the
\* crontab, Sunday) and monthly (day 1) at 00:00, daily for anything else
TriggerFor(interval) ==
    LET midnight == [minute |-> "0", hour |-> "0", day |-> "*", month |-> "*",
                     day_of_week |-> "*"]
    IN  IF interval.type = "int" THEN midnight
        ELSE IF interval.s = "weekly" THEN [midnight EXCEPT !.day_of_week = "0"]
        ELSE IF interval.s = "monthly" THEN [midnight EXCEPT !.day = "1"]
        ELSE midnight

C34_ReportBeforeNotification ==
    /\ [](\A t \in MonTasks : \A a \in AdminIds :
            /\ hist[t].notifs[a] # <<>> => hist[t].reports[a] > 0
            /\ hist[t].fail[a] = "report" => hist[t].notifs[a] = <<>>)
    /\ [][\A t \in MonTasks : \A a \in AdminIds :
            Len(hist'[t].notifs[a]) > Len(hist[t].notifs[a])
                => hist[t].reports[a] > 0]_vars

\* the append failed for the observed admin, which the evaluation had found
\* over a ceiling, and its check has ended
C34_Witness ==
    \E t \in MonTasks :
        /\ mon[t].pc = "sleep"
        /\ Cur(t) = obs.watch
        /\ obs.flagged = "exceeded"
        /\ hist[t].fail[Cur(t)] = "report"
        /\ hist[t].reports[Cur(t)] = 0
        /\ hist[t].notifs[Cur(t)] = <<>>

\* ------------------------------------------- activity flag at check time
\* the store no longer holds the admin as active
GoneOrInactive(a) == admins[a] = NoAdmin \/ ~admins[a].is_active

\* C35: an admin the enumeration of the cycle held as active and that is
\* deactivated or removed before its own check begins gets no Panel Client
\* call, no usage report and no notification in that cycle.
C35_ActivityRereadAtCheck ==
    /\ [][\A t \in MonTasks :
            (/\ mon[t].pc = "lookup"
             /\ mon[t].snap[mon[t].i].is_active
             /\ GoneOrInactive(Cur(t))
             /\ mon'[t] # mon[t])
            => /\ mon'[t].pc \notin {"stats", "report", "h_lookup", "h_send"}
               /\ hist'[t].found[Cur(t)] # "active"]_vars
    /\ [](\A t \in MonTasks : \A k \in 1..Len(mon[t].snap) :
            (/\ mon[t].pc \in MonLoopPcs \cup {"done"}
             /\ mon[t].snap[k].is_active
             /\ hist[t].found[mon[t].snap[k].id] \in {"inactive", "missing"})
            => /\ hist[t].stats_calls[mon[t].snap[k].id] = 0
               /\ hist[t].reports[mon[t].snap[k].id] = 0
               /\ hist[t].notifs[mon[t].snap[k].id] = <<>>)

\* a cycle that enumerated two active admins has ended; the first was
\* deactivated and the second removed before their checks
C35_Witness ==
    \E t \in MonTasks :
        /\ mon[t].pc = "done"
        /\ Len(mon[t].snap) = 2
        /\ \A k \in 1..2 : mon[t].snap[k].is_active
        /\ hist[t].found[mon[t].snap[1].id] = "inactive"
        /\ hist[t].found[mon[t].snap[2].id] = "missing"
        /\ \A a \in AdminIds :
                /\ hist[t].stats_calls[a] = 0
                /\ hist[t].reports[a] = 0
                /\ hist[t].notifs[a] = <<>>

\* ---------------------------------------------------------------- progress
\* C36: every execution of monitor_all_admins that has begun comes to its
\* end; a timer-fired instance of admin_monitor is eventually no longer
\* running, and whenever none is running while the timer runs, a firing of
\* admin_monitor is executed and not skipped.
C36_CyclesEndAndFiringsResume ==
    /\ \A t \in MonTasks :
            (mon[t].pc \notin {"idle", "done"}) ~> (mon[t].pc = "done")
    /\ (Busy(MonSlots, mon) # {}) ~> (Busy(MonSlots, mon) = {})
    /\ []((timer = "running" /\ jobs["admin_monitor"] > 0 /\ Busy(MonSlots, mon) = {})
            => (ENABLED TimerFireMonitor /\ ~ENABLED TimerDropMonitor))

\* a firing is being skipped because an instance runs, in an orchestrator
\* whose collaborators have raised
C36_Witness ==
    /\ ENABLED TimerDropMonitor
    /\ budget = 0
    /\ \E t \in TimerMonTasks : mon[t].pc \in MonLoopPcs

\* ---------------------------------------------------------------- shutdown
\* C38: however start_polling ends (polling returned, polling raised, or
\* start() raised) the orchestrator is not running and its timer is halted
\* once main() has left start_polling, and a running orchestrator is stopped
\* by the very step that leaves it.
C38_StoppedAfterStartPolling ==
    /\ [](boot.pc = "exited" => (~is_running /\ timer = "stopped"))
    /\ [][(boot.pc = "start_polling" /\ boot'.pc = "exited" /\ is_running)
            => (~is_running' /\ timer' = "stopped"
                /\ \A id \in JobIds : jobs'[id] = 0)]_vars

\* polling raised after start() had returned, and the orchestrator has been
\* stopped with a timer-fired cycle still in flight
C38_Witness ==
    /\ boot.pc = "exited"
    /\ boot.ended = "polling_raised"
    /\ ~is_running
    /\ timer = "stopped"
    /\ \E t \in TimerMonTasks : mon[t].pc # "idle"

\* -------------------------------------------------------- backup callbacks
\* C37: every Backup Service operation the callbacks backup_create,
\* backup_restore and restore_* have invoked was invoked for a caller in
\* SUDO_ADMINS, and a callback of any other caller leaves the invocations as
\* they are.
C37_BackupCallbacksSudoOnly ==
    /\ [](\A o \in chat.ops : o.by \in chat.sudo_admins)
    /\ [][chat'.denied # chat.denied => chat'.ops = chat.ops]_vars

\* a sudo admin has had all three operations invoked and another caller has
\* been refused at all three callbacks
C37_Witness ==
    /\ {o.op : o \in chat.ops} = {"create_backup", "list_backups", "restore_backup"}
    /\ \E u \in ChatUsers \ chat.sudo_admins :
            /\ [data |-> "backup_create", by |-> u] \in chat.denied
            /\ [data |-> "backup_restore", by |-> u] \in chat.denied
            /\ \E f \in BackupFiles : [data |-> "restore_" \o f, by |-> u] \in chat.denied
    /\ \E o \in chat.ops : o.op = "restore_backup" /\ o.arg = "a_b.sql"

====
